---- MODULE Spec2Model ----
(***************************************************************************)
(* SmartFarm API (src/index.js): the in-memory sensor and reading          *)
(* collections, the CRUD handlers over them, and the validated, filtered   *)
(* and paginated GET /api/readings query.                                  *)
(*                                                                         *)
(* Conventions of the model                                                *)
(*  - A JavaScript object with optional keys (req.query, req.body) is a    *)
(*    function whose DOMAIN is the set of keys that are present; a key     *)
(*    that is absent reads as undefined.                                   *)
(*  - A string that the code parses (a path id, page, limit, minValue,     *)
(*    maxValue) is a sequence of one-character strings over the alphabet   *)
(*    digits, "+", "-", ".", " ", "a", "b", "c".                           *)
(*  - A JavaScript number that may be NaN is [nan |-> BOOLEAN, n |-> Int]. *)
(*  - Reading values are kept in tenths (23.5 is 235), so that the static  *)
(*    data of the source, which is fractional, is exact.                   *)
(*  - Instants (Date.parse) are in minutes since 2025-11-01T00:00:00Z.     *)
(***************************************************************************)
EXTENDS Integers, Sequences, FiniteSets, TLC

VARIABLES sensors, readings, op, req, res,
          retired   \* history: the ids of the sensors deleted so far

vars == <<sensors, readings, op, req, res, retired>>

(***************************************************************************)
(* Bounds of the model.                                                    *)
(***************************************************************************)
\* largest sensor id createSensor may allocate in the model
MaxSensorId == 3
\* largest number of stored readings in the model
MaxReadings == 3
\* largest number of stored readings while the query engine is exercised
MaxQueryReadings == 4

(***************************************************************************)
(* JavaScript values and conversions.                                      *)
(***************************************************************************)
NaN == [nan |-> TRUE, n |-> 0]
JsNum(k) == [nan |-> FALSE, n |-> k]

\* a JSON value of a request body, tagged with its typeof
Str(s) == [k |-> "string", s |-> s]
Num(n) == [k |-> "number", n |-> n]
\* a query parameter given several times is an array of strings
Arr(a) == [k |-> "array", a |-> a]

\* the object with no keys
EmptyObject == [x \in {} |-> 0]
Has(o, key) == key \in DOMAIN o

DigitVal ==
  ("0" :> 0) @@ ("1" :> 1) @@ ("2" :> 2) @@ ("3" :> 3) @@ ("4" :> 4) @@
  ("5" :> 5) @@ ("6" :> 6) @@ ("7" :> 7) @@ ("8" :> 8) @@ ("9" :> 9)
IsDigit(c) == c \in DOMAIN DigitVal

RECURSIVE SkipWs(_)
SkipWs(s) == IF s # <<>> /\ Head(s) = " " THEN SkipWs(Tail(s)) ELSE s

RECURSIVE DigitsPrefix(_)
DigitsPrefix(s) ==
  IF s # <<>> /\ IsDigit(Head(s)) THEN <<Head(s)>> \o DigitsPrefix(Tail(s)) ELSE <<>>

RECURSIVE DigitsValue(_, _)
DigitsValue(s, acc) ==
  IF s = <<>> THEN acc ELSE DigitsValue(Tail(s), 10 * acc + DigitVal[Head(s)])

HasSign(s) == s # <<>> /\ Head(s) \in {"+", "-"}
IsNegative(s) == s # <<>> /\ Head(s) = "-"
Unsigned(s) == IF HasSign(s) THEN Tail(s) ELSE s

\* parseInt(s, 10): leading white space, an optional sign, then the longest run
\* of digits; whatever follows is ignored, and no digit at all gives NaN
parseInt(s) ==
  LET t == SkipWs(s)
      d == DigitsPrefix(Unsigned(t))
  IN  IF d = <<>> THEN NaN
      ELSE JsNum(IF IsNegative(t) THEN 0 - DigitsValue(d, 0) ELSE DigitsValue(d, 0))

RECURSIVE Reverse(_)
Reverse(s) == IF s = <<>> THEN <<>> ELSE Reverse(Tail(s)) \o <<Head(s)>>
Trim(s) == Reverse(SkipWs(Reverse(SkipWs(s))))

\* Number(s), in tenths: white space is trimmed and the empty string is 0;
\* otherwise the WHOLE string must be a decimal literal (digits with an optional
\* "." and fraction, or "." and a fraction), else NaN. Exact for literals with
\* at most one fractional digit, which is what the model's inputs hold.
Number(s) ==
  LET t == Trim(s)
      u == Unsigned(t)
      ip == DigitsPrefix(u)
      rest == SubSeq(u, Len(ip) + 1, Len(u))
      hasDot == rest # <<>> /\ Head(rest) = "."
      fp == IF hasDot THEN DigitsPrefix(Tail(rest)) ELSE <<>>
      wellFormed ==
        /\ ip # <<>> \/ fp # <<>>
        /\ Len(ip) + (IF hasDot THEN 1 ELSE 0) + Len(fp) = Len(u)
      tenths == 10 * DigitsValue(ip, 0) + (IF fp = <<>> THEN 0 ELSE DigitVal[Head(fp)])
  IN  IF t = <<>> THEN JsNum(0)
      ELSE IF ~wellFormed THEN NaN
      ELSE JsNum(IF IsNegative(t) THEN 0 - tenths ELSE tenths)

\* `${id}` in a template literal
JsToString(x) == IF x.nan THEN "NaN" ELSE ToString(x.n)

\* Date.parse on the timestamps the model uses, in minutes since
\* 2025-11-01T00:00:00Z; any other string is unparseable (NaN)
DateParse(s) ==
  CASE s = "2025-11-01T10:00:00Z" -> JsNum(600)
    [] s = "2025-11-01T10:00:00.000Z" -> JsNum(600)
    [] s = "2025-11-01T11:00:00Z" -> JsNum(660)
    [] s = "2025-11-01T13:00:00+02:00" -> JsNum(660)
    [] s = "2025-11-01T12:00:00Z" -> JsNum(720)
    [] s = "2025-11-02" -> JsNum(1440)
    [] OTHER -> NaN

\* isIsoString(s): !isNaN(Date.parse(s)); an absent timestamp is undefined,
\* which Date.parse turns into NaN
isIsoString(body, key) ==
  /\ Has(body, key)
  /\ body[key].k = "string"
  /\ ~DateParse(body[key].s).nan

\* String.prototype.toLowerCase on the status values the model uses
toLowerCase(s) ==
  CASE s = "ACTIVE" -> "active"
    [] s = "Active" -> "active"
    [] s = "INACTIVE" -> "inactive"
    [] OTHER -> s

Max(S) == CHOOSE x \in S : \A y \in S : y <= x

(***************************************************************************)
(* Errors: createError and the global error-handling middleware.           *)
(***************************************************************************)
createError(statusCode, publicMessage) ==
  [statusCode |-> statusCode, publicMessage |-> publicMessage, message |-> publicMessage]

\* an exception thrown inside a handler: an Error with a message only
thrown(message) == [message |-> message]

\* err.statusCode || 500
statusOf(err) ==
  IF Has(err, "statusCode") /\ err.statusCode # 0 THEN err.statusCode ELSE 500

\* err.publicMessage || err.message || "Internal Server Error"
messageOf(err) ==
  IF Has(err, "publicMessage") /\ err.publicMessage # "" THEN err.publicMessage
  ELSE IF Has(err, "message") /\ err.message # "" THEN err.message
  ELSE "Internal Server Error"

\* the handler answering 500 whatever the error, the payload as it is
errorHandlerAlways500(err) ==
  [status |-> 500,
   body |-> [status |-> statusOf(err),
             message |-> messageOf(err),
             error |-> messageOf(err)]]

\* the global error-handling middleware; of the payload the model keeps
\* status, message and error (timestamp, requestId, path and method are left out)
errorHandler(err) ==
  [status |-> statusOf(err),
   body |-> [status |-> statusOf(err),
             message |-> messageOf(err),
             error |-> messageOf(err)]]

send(status, body) == [status |-> status, body |-> body]

SensorNotFound(id) == "Sensor with ID " \o JsToString(id) \o " not found"

(***************************************************************************)
(* Sensor payload validation (the Joi schema).                             *)
(***************************************************************************)
allowedTypes == {"temperature", "humidity", "moisture"}
allowedStatus == {"active", "inactive"}
MinLocationLength == 3

Ok == [error |-> FALSE, message |-> ""]
Fail(m) == [error |-> TRUE, message |-> m]

\* the schema with unknown keys allowed (Joi's allowUnknown)
validateSensorAllowUnknown(sensor) ==
  IF ~Has(sensor, "location") THEN Fail("\"location\" is required")
  ELSE IF sensor.location.k # "string" THEN Fail("\"location\" must be a string")
  ELSE IF sensor.location.s = "" THEN Fail("\"location\" is not allowed to be empty")
  ELSE IF Len(sensor.location.s) < MinLocationLength
    THEN Fail("\"location\" length must be at least 3 characters long")
  ELSE IF ~Has(sensor, "type") THEN Fail("\"type\" is required")
  ELSE IF sensor.type.k # "string" \/ sensor.type.s \notin allowedTypes
    THEN Fail("\"type\" must be one of [temperature, humidity, moisture]")
  ELSE IF ~Has(sensor, "status") THEN Fail("\"status\" is required")
  ELSE IF sensor.status.k # "string" \/ sensor.status.s \notin allowedStatus
    THEN Fail("\"status\" must be one of [active, inactive]")
  ELSE Ok

\* Joi reports the first failing rule, the keys in the schema's order and the
\* keys the schema does not know after them
validateSensor(sensor) ==
  LET unknown == DOMAIN sensor \ {"location", "type", "status"}
  IN
  IF ~Has(sensor, "location") THEN Fail("\"location\" is required")
  ELSE IF sensor.location.k # "string" THEN Fail("\"location\" must be a string")
  ELSE IF sensor.location.s = "" THEN Fail("\"location\" is not allowed to be empty")
  ELSE IF Len(sensor.location.s) < MinLocationLength
    THEN Fail("\"location\" length must be at least 3 characters long")
  ELSE IF ~Has(sensor, "type") THEN Fail("\"type\" is required")
  ELSE IF sensor.type.k # "string" \/ sensor.type.s \notin allowedTypes
    THEN Fail("\"type\" must be one of [temperature, humidity, moisture]")
  ELSE IF ~Has(sensor, "status") THEN Fail("\"status\" is required")
  ELSE IF sensor.status.k # "string" \/ sensor.status.s \notin allowedStatus
    THEN Fail("\"status\" must be one of [active, inactive]")
  ELSE IF unknown # {}
    THEN Fail("\"" \o (CHOOSE key \in unknown : TRUE) \o "\" is not allowed")
  ELSE Ok

(***************************************************************************)
(* The store.                                                              *)
(***************************************************************************)
InitSensors ==
  << [id |-> 1, location |-> "Field A", type |-> "temperature", status |-> "active"],
     [id |-> 2, location |-> "Field B", type |-> "humidity", status |-> "inactive"] >>

InitReadings ==
  << [id |-> 1, sensorId |-> 1, timestamp |-> "2025-11-01T10:00:00Z", value |-> 235],
     [id |-> 2, sensorId |-> 1, timestamp |-> "2025-11-01T11:00:00Z", value |-> 240] >>

\* sensors.findIndex((s) => s.id === id), 0 for -1
findIndex(sens, id) ==
  IF id.nan \/ ~\E i \in DOMAIN sens : sens[i].id = id.n THEN 0
  ELSE CHOOSE i \in DOMAIN sens :
         sens[i].id = id.n /\ \A j \in DOMAIN sens : sens[j].id = id.n => i <= j

RemoveAt(s, i) == SubSeq(s, 1, i - 1) \o SubSeq(s, i + 1, Len(s))

(***************************************************************************)
(* The handlers: each maps the request and the collections to the response *)
(* and the collections it leaves behind.                                   *)
(***************************************************************************)
Outcome(sens, reads, r) == [sensors |-> sens, readings |-> reads, res |-> r]

\* GET /api/sensors?status=
\* an array has no toLowerCase: the filter throws on the first sensor, and with
\* no sensor stored it is never called
getSensors(query, sens, reads) ==
  IF Has(query, "status") /\ (query.status.k = "array" \/ query.status.s # "")
  THEN IF query.status.k = "array" /\ sens # <<>>
       THEN Outcome(sens, reads,
              errorHandler(thrown("status.toLowerCase is not a function")))
       ELSE Outcome(sens, reads,
              send(200, SelectSeq(sens,
                          LAMBDA s : toLowerCase(s.status) = toLowerCase(query.status.s))))
  ELSE Outcome(sens, reads, send(200, sens))

\* GET /api/sensors/:id
getSensor(idParam, sens, reads) ==
  LET id == parseInt(idParam)
      index == findIndex(sens, id)
  IN  IF index = 0
      THEN Outcome(sens, reads, errorHandler(createError(404, SensorNotFound(id))))
      ELSE Outcome(sens, reads, send(200, sens[index]))

\* the next id taken from the length of the collection
newIdByLength(coll) == Len(coll) + 1

\* Math.max(...sensors.map((s) => s.id)) + 1, or 1 for an empty collection
\* the smallest id no record of the collection holds
newIdLowestFree(coll) ==
  CHOOSE n \in 1 .. Len(coll) + 1 :
    /\ \A i \in DOMAIN coll : coll[i].id # n
    /\ \A m \in 1 .. n - 1 : \E i \in DOMAIN coll : coll[i].id = m

newId(coll) == IF Len(coll) > 0 THEN Max({coll[i].id : i \in DOMAIN coll}) + 1 ELSE 1

\* the largest id of a collection, 0 for an empty one
LargestId(coll) == newId(coll) - 1

\* POST /api/sensors
postSensor(body, sens, reads) ==
  LET v == validateSensor(body) IN
  IF v.error
  THEN Outcome(sens, reads, errorHandler(createError(400, v.message)))
  ELSE LET sensor == [id |-> newId(sens),
                      location |-> body.location.s,
                      type |-> body.type.s,
                      status |-> body.status.s]
       IN  Outcome(Append(sens, sensor), reads, send(201, sensor))

\* PUT that rebuilds the record as POST does, with a newly allocated id
putSensorNewRecord(idParam, body, sens, reads) ==
  LET id == parseInt(idParam)
      index == findIndex(sens, id)
      v == validateSensor(body)
  IN  IF index = 0
      THEN Outcome(sens, reads, errorHandler(createError(404, SensorNotFound(id))))
      ELSE IF v.error
      THEN Outcome(sens, reads, errorHandler(createError(400, v.message)))
      ELSE LET sensor == [id |-> newId(sens),
                          location |-> body.location.s,
                          type |-> body.type.s,
                          status |-> body.status.s]
           IN  Outcome([sens EXCEPT ![index] = sensor], reads, send(200, sensor))

\* PUT validating the payload before looking the sensor up
putSensorValidateFirst(idParam, body, sens, reads) ==
  LET id == parseInt(idParam)
      index == findIndex(sens, id)
      v == validateSensor(body)
  IN  IF v.error
      THEN Outcome(sens, reads, errorHandler(createError(400, v.message)))
      ELSE IF index = 0
      THEN Outcome(sens, reads, errorHandler(createError(404, SensorNotFound(id))))
      ELSE LET sensor == [sens[index] EXCEPT !.location = body.location.s,
                                             !.type = body.type.s,
                                             !.status = body.status.s]
           IN  Outcome([sens EXCEPT ![index] = sensor], reads, send(200, sensor))

\* PUT /api/sensors/:id
putSensor(idParam, body, sens, reads) ==
  LET id == parseInt(idParam)
      index == findIndex(sens, id)
      v == validateSensor(body)
  IN  IF index = 0
      THEN Outcome(sens, reads, errorHandler(createError(404, SensorNotFound(id))))
      ELSE IF v.error
      THEN Outcome(sens, reads, errorHandler(createError(400, v.message)))
      ELSE LET sensor == [sens[index] EXCEPT !.location = body.location.s,
                                             !.type = body.type.s,
                                             !.status = body.status.s]
           IN  Outcome([sens EXCEPT ![index] = sensor], reads, send(200, sensor))

\* DELETE without the index === -1 check: splice(-1, 1) removes the last sensor
deleteSensorUnchecked(idParam, sens, reads) ==
  LET id == parseInt(idParam)
      index == findIndex(sens, id)
      at == IF index = 0 THEN Len(sens) ELSE index
  IN  IF at = 0
      THEN Outcome(sens, reads, send(200, EmptyObject))
      ELSE Outcome(RemoveAt(sens, at), reads, send(200, sens[at]))

\* DELETE that also drops the readings of the deleted sensor
deleteSensorCascade(idParam, sens, reads) ==
  LET id == parseInt(idParam)
      index == findIndex(sens, id)
  IN  IF index = 0
      THEN Outcome(sens, reads, errorHandler(createError(404, SensorNotFound(id))))
      ELSE Outcome(RemoveAt(sens, index),
                   SelectSeq(reads, LAMBDA r : r.sensorId # id.n),
                   send(200, sens[index]))

\* DELETE /api/sensors/:id
deleteSensor(idParam, sens, reads) ==
  LET id == parseInt(idParam)
      index == findIndex(sens, id)
  IN  IF index = 0
      THEN Outcome(sens, reads, errorHandler(createError(404, SensorNotFound(id))))
      ELSE Outcome(RemoveAt(sens, index), reads, send(200, sens[index]))

\* GET /api/sensors/:id/readings
getSensorReadings(idParam, sens, reads) ==
  LET id == parseInt(idParam)
      index == findIndex(sens, id)
  IN  IF index = 0
      THEN Outcome(sens, reads, errorHandler(createError(404, SensorNotFound(id))))
      ELSE Outcome(sens, reads,
             send(200, SelectSeq(reads, LAMBDA r : r.sensorId = id.n)))

\* POST of a reading without the lookup of its sensor
postSensorReadingUnchecked(idParam, body, sens, reads) ==
  LET id == parseInt(idParam)
  IN  IF id.nan
      THEN Outcome(sens, reads, errorHandler(createError(404, SensorNotFound(id))))
      ELSE IF ~isIsoString(body, "timestamp")
              \/ ~(Has(body, "value") /\ body.value.k = "number")
      THEN Outcome(sens, reads,
             errorHandler(createError(400, "Invalid reading: timestamp or value")))
      ELSE LET reading == [id |-> newId(reads),
                           sensorId |-> id.n,
                           timestamp |-> body.timestamp.s,
                           value |-> body.value.n]
           IN  Outcome(sens, Append(reads, reading), send(201, reading))

\* POST /api/sensors/:id/readings
postSensorReading(idParam, body, sens, reads) ==
  LET id == parseInt(idParam)
      index == findIndex(sens, id)
  IN  IF index = 0
      THEN Outcome(sens, reads, errorHandler(createError(404, SensorNotFound(id))))
      ELSE IF ~isIsoString(body, "timestamp")
              \/ ~(Has(body, "value") /\ body.value.k = "number")
      THEN Outcome(sens, reads,
             errorHandler(createError(400, "Invalid reading: timestamp or value")))
      ELSE LET reading == [id |-> newId(reads),
                           sensorId |-> id.n,
                           timestamp |-> body.timestamp.s,
                           value |-> body.value.n]
           IN  Outcome(sens, Append(reads, reading), send(201, reading))

(***************************************************************************)
(* GET /api/readings: validation, filtering, pagination.                   *)
(***************************************************************************)
DefaultPage == 1
DefaultLimit == 10
MinLimit == 1
MaxLimit == 100

\* 6.1: page and limit as the handler reads them (NaN when unparseable)
pageOf(query) == IF ~Has(query, "page") THEN JsNum(DefaultPage) ELSE parseInt(query.page)
limitOf(query) == IF ~Has(query, "limit") THEN JsNum(DefaultLimit) ELSE parseInt(query.limit)

\* `if (type)`: a type that is present and not the empty string
typeGiven(query) == Has(query, "type") /\ query.type # ""

\* 6.1 and 6.2: the message of the first check that fails, "" when none does
queryError(query) ==
  LET page == pageOf(query)
      limit == limitOf(query)
      minVal == Number(query.minValue)
      maxVal == Number(query.maxValue)
      fromTime == DateParse(query.from)
      toTime == DateParse(query.to)
  IN
  IF Has(query, "page") /\ (page.nan \/ page.n < 1)
    THEN "page must be an integer greater than or equal to 1"
  ELSE IF Has(query, "limit") /\ (limit.nan \/ limit.n < MinLimit \/ limit.n > MaxLimit)
    THEN "limit must be between 1 and 100"
  ELSE IF typeGiven(query) /\ query.type \notin allowedTypes
    THEN "Invalid type: must be one of temperature, humidity, moisture"
  ELSE IF Has(query, "minValue") /\ minVal.nan
    THEN "minValue must be a number"
  ELSE IF Has(query, "maxValue") /\ maxVal.nan
    THEN "maxValue must be a number"
  ELSE IF Has(query, "minValue") /\ Has(query, "maxValue") /\ minVal.n > maxVal.n
    THEN "minValue cannot exceed maxValue"
  ELSE IF Has(query, "from") /\ fromTime.nan
    THEN "Invalid date format for 'from' parameter"
  ELSE IF Has(query, "to") /\ toTime.nan
    THEN "Invalid date format for 'to' parameter"
  ELSE IF Has(query, "from") /\ Has(query, "to") /\ fromTime.n > toTime.n
    THEN "'from' cannot be later than 'to'"
  ELSE ""

\* 6.3: the five filters, each a no-op when its parameter is not given
typeFilter(query, sens, seq) ==
  IF typeGiven(query)
  THEN LET matchingSensorIds ==
             {sens[i].id : i \in {j \in DOMAIN sens : sens[j].type = query.type}}
       IN  SelectSeq(seq, LAMBDA r : r.sensorId \in matchingSensorIds)
  ELSE seq

\* the minValue filter with a strict comparison
minValueFilterStrict(query, seq) ==
  IF Has(query, "minValue")
  THEN SelectSeq(seq, LAMBDA r : r.value > Number(query.minValue).n)
  ELSE seq

minValueFilter(query, seq) ==
  IF Has(query, "minValue")
  THEN SelectSeq(seq, LAMBDA r : r.value >= Number(query.minValue).n)
  ELSE seq

maxValueFilter(query, seq) ==
  IF Has(query, "maxValue")
  THEN SelectSeq(seq, LAMBDA r : r.value <= Number(query.maxValue).n)
  ELSE seq

\* a comparison with NaN is false
fromFilter(query, seq) ==
  IF Has(query, "from")
  THEN SelectSeq(seq, LAMBDA r :
         /\ ~DateParse(r.timestamp).nan
         /\ DateParse(r.timestamp).n >= DateParse(query.from).n)
  ELSE seq

toFilter(query, seq) ==
  IF Has(query, "to")
  THEN SelectSeq(seq, LAMBDA r :
         /\ ~DateParse(r.timestamp).nan
         /\ DateParse(r.timestamp).n <= DateParse(query.to).n)
  ELSE seq

applyFilters(query, sens, reads) ==
  toFilter(query,
    fromFilter(query,
      maxValueFilter(query,
        minValueFilter(query,
          typeFilter(query, sens, reads)))))

\* Math.floor where Math.ceil is meant
CeilAsFloor(a, b) == a \div b

\* Math.ceil(a / b) for a >= 0, b >= 1
Ceil(a, b) == (a + b - 1) \div b

\* slice taken with an inclusive end index
sliceInclusiveEnd(seq, start, end) ==
  SubSeq(seq, start + 1, IF end + 1 < Len(seq) THEN end + 1 ELSE Len(seq))

\* Array.prototype.slice(start, end) with 0-based, end-exclusive indices
slice(seq, start, end) ==
  SubSeq(seq, start + 1, IF end < Len(seq) THEN end ELSE Len(seq))

\* hasNext computed with `!==` where `<` is meant
paginateHasNextUnequal(page, limit, filtered) ==
  LET totalItems == Len(filtered)
      totalPages == IF totalItems = 0 THEN 0 ELSE Ceil(totalItems, limit)
      startIndex == (page - 1) * limit
      endIndex == startIndex + limit
      results == IF totalPages = 0 \/ page > totalPages
                 THEN <<>>
                 ELSE slice(filtered, startIndex, endIndex)
  IN  [page |-> page,
       pageSize |-> limit,
       totalItems |-> totalItems,
       totalPages |-> totalPages,
       hasNext |-> totalPages > 0 /\ page # totalPages,
       hasPrev |-> totalPages > 0 /\ page > 1,
       results |-> results]

\* 6.4: the pagination envelope
paginate(page, limit, filtered) ==
  LET totalItems == Len(filtered)
      totalPages == IF totalItems = 0 THEN 0 ELSE Ceil(totalItems, limit)
      startIndex == (page - 1) * limit
      endIndex == startIndex + limit
      results == IF totalPages = 0 \/ page > totalPages
                 THEN <<>>
                 ELSE slice(filtered, startIndex, endIndex)
  IN  [page |-> page,
       pageSize |-> limit,
       totalItems |-> totalItems,
       totalPages |-> totalPages,
       hasNext |-> totalPages > 0 /\ page < totalPages,
       hasPrev |-> totalPages > 0 /\ page > 1,
       results |-> results]

\* GET /api/fail
getFail(sens, reads) ==
  Outcome(sens, reads,
    errorHandler([statusCode |-> 500,
                  publicMessage |-> "Simulated failure",
                  message |-> "Simulated failure"]))

\* the 404 fallback for unknown routes
notFoundFallback(method, url, sens, reads) ==
  Outcome(sens, reads,
    errorHandler(createError(404, "Route " \o method \o " " \o url \o " not found")))

\* GET /api/readings filtering the stored array itself instead of a copy
getReadingsInPlace(query, sens, reads) ==
  LET error == queryError(query) IN
  IF error # ""
  THEN Outcome(sens, reads, errorHandler(createError(400, error)))
  ELSE Outcome(sens, applyFilters(query, sens, reads),
         send(200, paginate(pageOf(query).n, limitOf(query).n,
                            applyFilters(query, sens, reads))))

\* GET /api/readings
getReadings(query, sens, reads) ==
  LET error == queryError(query) IN
  IF error # ""
  THEN Outcome(sens, reads, errorHandler(createError(400, error)))
  ELSE Outcome(sens, reads,
         send(200, paginate(pageOf(query).n, limitOf(query).n,
                            applyFilters(query, sens, reads))))

(***************************************************************************)
(* The requests the model sends.                                           *)
(***************************************************************************)
Digit == [i \in 0 .. 9 |-> CHOOSE c \in DOMAIN DigitVal : DigitVal[c] = i]

IdParams ==
  {<<Digit[i]>> : i \in 1 .. MaxSensorId} \cup {<<"9", "9", "9">>, <<"a">>, <<"2", "a">>}

SensorBodies ==
  { [location |-> Str("Field C"), type |-> Str("moisture"), status |-> Str("active")],
    [location |-> Str("Barn"), type |-> Str("temperature"), status |-> Str("inactive")],
    [location |-> Str("ab"), type |-> Str("humidity"), status |-> Str("active")],
    [location |-> Str("Field D"), type |-> Str("bogus")],
    [location |-> Num(42), type |-> Str("humidity"), status |-> Str("active")],
    [location |-> Str("Field E"), type |-> Str("humidity"), status |-> Str("active"),
     owner |-> Str("Ann")] }

ReadingBodies ==
  { [timestamp |-> Str("2025-11-01T12:00:00Z"), value |-> Num(250)],
    [timestamp |-> Str("not-a-date"), value |-> Num(250)],
    [timestamp |-> Str("2025-11-01T12:00:00Z"), value |-> Str("25")],
    [value |-> Num(250)] }

StatusQueries ==
  { EmptyObject,
    [status |-> Str("ACTIVE")],
    [status |-> Str("inactive")],
    [status |-> Arr(<<"active", "inactive">>)] }

\* requests no route matches
UnknownRequests == {[method |-> "GET", url |-> "/api/unknown"],
                    [method |-> "DELETE", url |-> "/api/readings/1"]}

\* the objects with at most the one key `key`, its value drawn from S
Opt(key, S) == {EmptyObject} \cup {key :> v : v \in S}

\* a few queries for GET /api/readings beside the other operations
StoreQueries ==
  { EmptyObject,
    [type |-> "temperature"],
    [type |-> "moisture"],
    [type |-> "bogus"],
    [page |-> <<"2">>, limit |-> <<"1">>],
    [minValue |-> <<"2", "4">>, from |-> "2025-11-01T10:00:00.000Z"] }

\* queries that pass validation: pages, page sizes and every filter
PageQueries ==
  { p @@ l @@ ty @@ lo @@ hi @@ f @@ u :
      p \in Opt("page", {<<"2">>, <<"3">>, <<"9", "9", "9">>}),
      l \in Opt("limit", {<<"1">>, <<"2">>, <<"3">>}),
      ty \in Opt("type", {"temperature", "humidity"}),
      lo \in Opt("minValue", {<<"2", "4">>}),
      hi \in Opt("maxValue", {<<"2", "4", ".", "5">>}),
      f \in Opt("from", {"2025-11-01T11:00:00Z"}),
      u \in Opt("to", {"2025-11-01T13:00:00+02:00"}) }

\* queries with every parameter absent, well-formed or malformed
WideQueries ==
  { p @@ l @@ ty @@ lo @@ hi @@ f @@ u :
      p \in Opt("page", {<<"2">>, <<"0">>, <<"a">>, <<"-", "1">>}),
      l \in Opt("limit", {<<"2">>, <<"0">>, <<"1", "0", "1">>, <<"a">>}),
      ty \in Opt("type", {"", "humidity", "bogus"}),
      lo \in Opt("minValue", {<<"a">>, <<"2", "4">>, <<>>}),
      hi \in Opt("maxValue", {<<"a">>, <<"2", "3">>, <<"2", "4">>}),
      f \in Opt("from", {"not-a-date", "2025-11-01T11:00:00Z"}),
      u \in Opt("to", {"not-a-date", "2025-11-01T10:00:00Z"}) }

\* the readings posted while the query engine is exercised
QueryIdParams == {<<"1">>, <<"2">>}
QueryReadingBodies ==
  { [timestamp |-> Str("2025-11-01T12:00:00Z"), value |-> Num(250)],
    [timestamp |-> Str("2025-11-01T13:00:00+02:00"), value |-> Num(240)] }

(***************************************************************************)
(* The state machine: one request is handled at a time; the response is    *)
(* sent and the request finishes before the next one is taken.             *)
(***************************************************************************)
Init ==
  /\ sensors = InitSensors
  /\ readings = InitReadings
  /\ op = "idle"
  /\ req = EmptyObject
  /\ res = send(0, EmptyObject)
  /\ retired = {}

\* the response is sent and the collections are left as the handler left them
Handle(name, request, out) ==
  /\ sensors' = out.sensors
  /\ readings' = out.readings
  /\ op' = name
  /\ req' = request
  /\ res' = out.res
  /\ retired' = IF name = "deleteSensor" /\ out.res.status = 200
                THEN retired \cup {out.res.body.id}
                ELSE retired

ListSensors ==
  \E query \in StatusQueries :
    /\ op = "idle"
    /\ Handle("listSensors", [query |-> query], getSensors(query, sensors, readings))

GetSensor ==
  \E id \in IdParams :
    /\ op = "idle"
    /\ Handle("getSensor", [id |-> id], getSensor(id, sensors, readings))

\* the model stops allocating sensor ids at MaxSensorId
CreateSensor ==
  \E body \in SensorBodies :
    /\ op = "idle"
    /\ LargestId(postSensor(body, sensors, readings).sensors) <= MaxSensorId
    /\ Handle("createSensor", [body |-> body], postSensor(body, sensors, readings))

UpdateSensor ==
  \E id \in IdParams, body \in SensorBodies :
    /\ op = "idle"
    /\ Handle("updateSensor", [id |-> id, body |-> body],
              putSensor(id, body, sensors, readings))

DeleteSensor ==
  \E id \in IdParams :
    /\ op = "idle"
    /\ Handle("deleteSensor", [id |-> id], deleteSensor(id, sensors, readings))

ListReadingsForSensor ==
  \E id \in IdParams :
    /\ op = "idle"
    /\ Handle("listReadingsForSensor", [id |-> id],
              getSensorReadings(id, sensors, readings))

\* the model stops storing readings at MaxReadings
CreateReading ==
  \E id \in IdParams, body \in ReadingBodies :
    /\ op = "idle"
    /\ Len(postSensorReading(id, body, sensors, readings).readings) <= MaxReadings
    /\ Handle("createReading", [id |-> id, body |-> body],
              postSensorReading(id, body, sensors, readings))

ListReadings ==
  \E query \in StoreQueries :
    /\ op = "idle"
    /\ Handle("listReadings", [query |-> query], getReadings(query, sensors, readings))

SimulateFailure ==
  /\ op = "idle"
  /\ Handle("fail", EmptyObject, getFail(sensors, readings))

UnknownRoute ==
  \E request \in UnknownRequests :
    /\ op = "idle"
    /\ Handle("unknownRoute", request,
              notFoundFallback(request.method, request.url, sensors, readings))

\* res.on("finish"): the response has been sent
Finish ==
  /\ op # "idle"
  /\ op' = "idle"
  /\ req' = EmptyObject
  /\ res' = send(0, EmptyObject)
  /\ UNCHANGED <<sensors, readings, retired>>

Next ==
  \/ ListSensors
  \/ GetSensor
  \/ CreateSensor
  \/ UpdateSensor
  \/ DeleteSensor
  \/ ListReadingsForSensor
  \/ CreateReading
  \/ ListReadings
  \/ SimulateFailure
  \/ UnknownRoute
  \/ Finish

Spec == Init /\ [][Next]_vars

(***************************************************************************)
(* The query engine exercised over stores grown by posted readings and     *)
(* shrunk by deleted sensors, with queries that pass validation.           *)
(***************************************************************************)
QueryCreateReading ==
  \E id \in QueryIdParams, body \in QueryReadingBodies :
    /\ op = "idle"
    /\ Len(postSensorReading(id, body, sensors, readings).readings) <= MaxQueryReadings
    /\ Handle("createReading", [id |-> id, body |-> body],
              postSensorReading(id, body, sensors, readings))

QueryDeleteSensor ==
  \E id \in QueryIdParams :
    /\ op = "idle"
    /\ Handle("deleteSensor", [id |-> id], deleteSensor(id, sensors, readings))

QueryListReadings ==
  \E query \in PageQueries :
    /\ op = "idle"
    /\ Handle("listReadings", [query |-> query], getReadings(query, sensors, readings))

NextQuery ==
  \/ QueryCreateReading
  \/ QueryDeleteSensor
  \/ QueryListReadings
  \/ Finish

SpecQuery == Init /\ [][NextQuery]_vars

(***************************************************************************)
(* The validation of GET /api/readings exercised with queries whose        *)
(* parameters are absent, well-formed or malformed in every combination.   *)
(***************************************************************************)
ValidateListReadings ==
  \E query \in WideQueries :
    /\ op = "idle"
    /\ Handle("listReadings", [query |-> query], getReadings(query, sensors, readings))

NextValidate ==
  \/ ValidateListReadings
  \/ Finish

SpecValidate == Init /\ [][NextValidate]_vars

(***************************************************************************)
(* The properties, stated over the request in flight and its response.     *)
(***************************************************************************)
StoredIds == {sensors[i].id : i \in DOMAIN sensors}

\* a GET /api/readings request that was answered with a pagination envelope
Listed == op = "listReadings" /\ res.status = 200

\* a query that satisfies every rule of the parameter table: each parameter is
\* absent or well-formed (a type that is present is one of the three types)
WellFormedQuery(query) ==
  /\ Has(query, "page") => ~parseInt(query.page).nan /\ parseInt(query.page).n >= 1
  /\ Has(query, "limit") =>
       /\ ~parseInt(query.limit).nan
       /\ parseInt(query.limit).n >= 1
       /\ parseInt(query.limit).n <= 100
  /\ Has(query, "type") => query.type \in {"temperature", "humidity", "moisture"}
  /\ Has(query, "minValue") => ~Number(query.minValue).nan
  /\ Has(query, "maxValue") => ~Number(query.maxValue).nan
  /\ Has(query, "minValue") /\ Has(query, "maxValue") =>
       Number(query.minValue).n <= Number(query.maxValue).n
  /\ Has(query, "from") => ~DateParse(query.from).nan
  /\ Has(query, "to") => ~DateParse(query.to).nan
  /\ Has(query, "from") /\ Has(query, "to") =>
       DateParse(query.from).n <= DateParse(query.to).n

\* the reading r satisfies every filter the query gives
Matches(query, r) ==
  /\ Has(query, "type") =>
       \E i \in DOMAIN sensors : sensors[i].id = r.sensorId /\ sensors[i].type = query.type
  /\ Has(query, "minValue") => r.value >= Number(query.minValue).n
  /\ Has(query, "maxValue") => r.value <= Number(query.maxValue).n
  /\ Has(query, "from") => DateParse(r.timestamp).n >= DateParse(query.from).n
  /\ Has(query, "to") => DateParse(r.timestamp).n <= DateParse(query.to).n

\* the filtered sequence: the stored readings that match, in insertion order
Filtered(query) == SelectSeq(readings, LAMBDA r : Matches(query, r))

\* the page and the limit a well-formed query asks for
AskedPage(query) == IF Has(query, "page") THEN parseInt(query.page).n ELSE 1
AskedLimit(query) == IF Has(query, "limit") THEN parseInt(query.limit).n ELSE 10

\* C1: every successful listReadings response has totalItems = the size of the
\* filtered sequence, pageSize = limit, totalPages = ceil(totalItems / limit)
\* (0 when totalItems = 0), hasNext = (totalPages > 0 and page < totalPages)
\* and hasPrev = (totalPages > 0 and page > 1).
C1_PaginationMetadata ==
  Listed =>
    LET b == res.body
        N == Len(Filtered(req.query))
        L == AskedLimit(req.query)
        P == AskedPage(req.query)
    IN  /\ b.totalItems = N
        /\ b.pageSize = L
        /\ IF N = 0 THEN b.totalPages = 0
           ELSE b.totalPages * L >= N /\ (b.totalPages - 1) * L < N
        /\ b.hasNext = (b.totalPages > 0 /\ P < b.totalPages)
        /\ b.hasPrev = (b.totalPages > 0 /\ P > 1)

\* page 2 of 2 over three filtered readings with limit 2: a ceiling with a remainder
C1_Witness ==
  /\ Listed
  /\ res.body.totalItems = 3
  /\ res.body.pageSize = 2
  /\ res.body.page = 2
  /\ res.body.totalPages = 2
  /\ res.body.hasPrev
  /\ ~res.body.hasNext

\* String(n) for n >= 0: the decimal digits of n
RECURSIVE NatToChars(_)
NatToChars(n) ==
  IF n < 10 THEN <<Digit[n]>> ELSE NatToChars(n \div 10) \o <<Digit[n % 10]>>

\* the same query asking for page p
ForPage(query, p) == ("page" :> NatToChars(p)) @@ query

\* the results listReadings returns for page p of the query
PageResults(query, p) ==
  getReadings(ForPage(query, p), sensors, readings).res.body.results

RECURSIVE ConcatPages(_, _, _)
ConcatPages(query, p, last) ==
  IF p > last THEN <<>>
  ELSE PageResults(query, p) \o ConcatPages(query, p + 1, last)

\* C2: pagination law: the results of pages 1..totalPages, concatenated in
\* order, are exactly the filtered sequence (same elements, same order, no
\* duplicates, no gaps); the page lengths sum to its size and every page except
\* possibly the last holds exactly limit items.
C2_PaginationLaw ==
  Listed =>
    LET T == res.body.totalPages
        L == AskedLimit(req.query)
        F == Filtered(req.query)
        all == ConcatPages(req.query, 1, T)
    IN  /\ all = F
        /\ Len(all) = Len(F)
        /\ \A i, j \in DOMAIN all : i # j => all[i].id # all[j].id
        /\ \A p \in 1 .. T - 1 : Len(PageResults(req.query, p)) = L
        /\ T > 0 => Len(PageResults(req.query, T)) \in 1 .. L
        /\ AskedPage(req.query) \in 1 .. T =>
             res.body.results = PageResults(req.query, AskedPage(req.query))

\* four filtered readings with limit 3: a full first page and a last page of one
C2_Witness ==
  /\ Listed
  /\ res.body.totalItems = 4
  /\ res.body.pageSize = 3
  /\ res.body.totalPages = 2
  /\ res.body.page = 2
  /\ Len(res.body.results) = 1

\* a page beyond the last page of a non-empty filtered sequence
OutOfRange == Listed /\ res.body.totalPages > 0 /\ AskedPage(req.query) > res.body.totalPages

\* C3 as stated: an out-of-range page on a non-empty filtered set gives
\* results = [], hasNext = false and hasPrev = false, with totalItems and
\* totalPages still describing the filtered set.
C3_OutOfRangePageAsStated ==
  OutOfRange =>
    /\ res.body.results = <<>>
    /\ ~res.body.hasNext
    /\ ~res.body.hasPrev
    /\ res.body.totalItems = Len(Filtered(req.query))

\* C3: an out-of-range page on a non-empty filtered set is no error: results =
\* [], hasNext = false and hasPrev = true (page > 1 and totalPages > 0), with
\* totalItems and totalPages still describing the filtered set.
C3_OutOfRangePage ==
  OutOfRange =>
    /\ res.body.results = <<>>
    /\ ~res.body.hasNext
    /\ res.body.hasPrev
    /\ res.body.totalItems = Len(Filtered(req.query))
    /\ res.body.totalPages * AskedLimit(req.query) >= res.body.totalItems
    /\ (res.body.totalPages - 1) * AskedLimit(req.query) < res.body.totalItems

\* page=999 over three filtered readings with the default limit of 10
C3_Witness ==
  /\ OutOfRange
  /\ req.query.page = <<"9", "9", "9">>
  /\ ~Has(req.query, "limit")
  /\ res.body.totalItems = 3
  /\ res.body.totalPages = 1
  /\ res.body.results = <<>>

\* the five filters by number, and their application in a given order
FilterNo(k, query, seq) ==
  CASE k = 1 -> typeFilter(query, sensors, seq)
    [] k = 2 -> minValueFilter(query, seq)
    [] k = 3 -> maxValueFilter(query, seq)
    [] k = 4 -> fromFilter(query, seq)
    [] k = 5 -> toFilter(query, seq)

RECURSIVE FilterInOrder(_, _, _)
FilterInOrder(order, query, seq) ==
  IF order = <<>> THEN seq
  ELSE FilterInOrder(Tail(order), query, FilterNo(Head(order), query, seq))

Orders == {o \in [1 .. 5 -> 1 .. 5] : \A i, j \in 1 .. 5 : i # j => o[i] # o[j]}

\* the items of page P of size L of the sequence F
PageOfSeq(F, P, L) ==
  [i \in 1 .. (IF P * L <= Len(F) THEN L
               ELSE IF (P - 1) * L >= Len(F) THEN 0
               ELSE Len(F) - (P - 1) * L) |-> F[(P - 1) * L + i]]

\* C5: for a well-formed query the sequence listReadings paginates is exactly
\* the stored readings, in insertion order, that satisfy every given filter at
\* once (type via a currently stored sensor of that type, minValue, maxValue,
\* from, to), and applying the five filters in any order gives that sequence.
\* (The orders are compared on the queries that give no page and no limit: the
\* filters do not read them.)
C5_FilterConjunction ==
  Listed /\ WellFormedQuery(req.query) =>
    LET F == Filtered(req.query) IN
    /\ res.body.totalItems = Len(F)
    /\ res.body.results = PageOfSeq(F, AskedPage(req.query), AskedLimit(req.query))
    /\ applyFilters(req.query, sensors, readings) = F
    /\ ~Has(req.query, "page") /\ ~Has(req.query, "limit") =>
         \A o \in Orders : FilterInOrder(o, req.query, readings) = F

\* type, value and time filters together keep one of four readings, one of
\* which belongs to a deleted sensor
C5_Witness ==
  /\ Listed
  /\ DOMAIN req.query = {"type", "minValue", "maxValue", "from", "to"}
  /\ Len(readings) = 4
  /\ \E i \in DOMAIN readings : readings[i].sensorId \notin StoredIds
  /\ res.body.totalItems = 1
  /\ Len(res.body.results) = 1

\* the rules of the parameter table, in the table's order
RuleViolated(k, query) ==
  CASE k = 1 -> Has(query, "page") /\ (parseInt(query.page).nan \/ parseInt(query.page).n < 1)
    [] k = 2 -> /\ Has(query, "limit")
                /\ \/ parseInt(query.limit).nan
                   \/ parseInt(query.limit).n < 1
                   \/ parseInt(query.limit).n > 100
    [] k = 3 -> Has(query, "type") /\ query.type \notin {"temperature", "humidity", "moisture"}
    [] k = 4 -> Has(query, "minValue") /\ Number(query.minValue).nan
    [] k = 5 -> Has(query, "maxValue") /\ Number(query.maxValue).nan
    [] k = 6 -> /\ Has(query, "minValue") /\ ~Number(query.minValue).nan
                /\ Has(query, "maxValue") /\ ~Number(query.maxValue).nan
                /\ Number(query.minValue).n > Number(query.maxValue).n
    [] k = 7 -> Has(query, "from") /\ DateParse(query.from).nan
    [] k = 8 -> Has(query, "to") /\ DateParse(query.to).nan
    [] k = 9 -> /\ Has(query, "from") /\ ~DateParse(query.from).nan
                /\ Has(query, "to") /\ ~DateParse(query.to).nan
                /\ DateParse(query.from).n > DateParse(query.to).n

RuleMessage(k) ==
  CASE k = 1 -> "page must be an integer greater than or equal to 1"
    [] k = 2 -> "limit must be between 1 and 100"
    [] k = 3 -> "Invalid type: must be one of temperature, humidity, moisture"
    [] k = 4 -> "minValue must be a number"
    [] k = 5 -> "maxValue must be a number"
    [] k = 6 -> "minValue cannot exceed maxValue"
    [] k = 7 -> "Invalid date format for 'from' parameter"
    [] k = 8 -> "Invalid date format for 'to' parameter"
    [] k = 9 -> "'from' cannot be later than 'to'"

ViolatedRules(query) == {k \in 1 .. 9 : RuleViolated(k, query)}
FirstViolated(query) == CHOOSE k \in ViolatedRules(query) : \A j \in ViolatedRules(query) : k <= j

\* C4 as stated: a query that violates several rules at once is answered with
\* a ValidationError carrying the message of the first violated rule in the
\* order page, limit, type, minValue, maxValue, (minValue <= maxValue), from,
\* to, (from <= to), and with no pagination result.
C4_FirstViolatedRuleReported ==
  op = "listReadings" /\ Cardinality(ViolatedRules(req.query)) >= 2 =>
    /\ res.status = 400
    /\ res.body.message = RuleMessage(FirstViolated(req.query))

\* the order of C4 on the queries whose type is not the empty string (the one
\* value the type check of the handler lets through, see C6)
C4_OrderUnlessEmptyType ==
  /\ op = "listReadings"
  /\ ViolatedRules(req.query) # {}
  /\ ~(Has(req.query, "type") /\ req.query.type = "")
  => /\ res.status = 400
     /\ res.body.message = RuleMessage(FirstViolated(req.query))

\* C6 as stated: a type that is present and is not temperature, humidity or
\* moisture (the empty string included) is answered with the ValidationError
\* "Invalid type: must be one of temperature, humidity, moisture" (here for
\* queries whose page and limit, which are checked before it, are well-formed).
C6_PresentInvalidTypeRejected ==
  /\ op = "listReadings"
  /\ Has(req.query, "type")
  /\ req.query.type \notin {"temperature", "humidity", "moisture"}
  /\ ~RuleViolated(1, req.query)
  /\ ~RuleViolated(2, req.query)
  => /\ res.status = 400
     /\ res.body.message = "Invalid type: must be one of temperature, humidity, moisture"

\* C6 on the types that are present and not empty
C6_NonEmptyInvalidTypeRejected ==
  /\ op = "listReadings"
  /\ Has(req.query, "type")
  /\ req.query.type # ""
  /\ req.query.type \notin {"temperature", "humidity", "moisture"}
  /\ ~RuleViolated(1, req.query)
  /\ ~RuleViolated(2, req.query)
  => /\ res.status = 400
     /\ res.body.message = "Invalid type: must be one of temperature, humidity, moisture"

\* a sensor payload with exactly the three fields, each valid
ValidSensorPayload(body) ==
  /\ DOMAIN body = {"location", "type", "status"}
  /\ body.location.k = "string" /\ Len(body.location.s) >= 3
  /\ body.type.k = "string" /\ body.type.s \in {"temperature", "humidity", "moisture"}
  /\ body.status.k = "string" /\ body.status.s \in {"active", "inactive"}

\* the record createSensor is to store for a payload, given the sensors before
CreatedSensor(body) ==
  [id |-> IF sensors = <<>> THEN 1 ELSE 1 + Max(StoredIds),
   location |-> body.location.s,
   type |-> body.type.s,
   status |-> body.status.s]

\* C7: for a valid payload createSensor appends exactly one sensor at the end
\* of the collection, with id 1 + the largest id present before the call (1
\* when the collection is empty) and the location, type and status of the
\* input, and returns that record.
C7_CreateSensorAppends ==
  [][ op' = "createSensor" /\ ValidSensorPayload(req'.body) =>
        /\ sensors' = Append(sensors, CreatedSensor(req'.body))
        /\ res'.status = 201
        /\ res'.body = CreatedSensor(req'.body)
        /\ readings' = readings ]_vars

\* a sensor created after sensor 1 was deleted: one sensor before, and id 3
C7_Witness ==
  /\ op = "createSensor"
  /\ res.status = 201
  /\ Len(sensors) = 2
  /\ sensors[1].id = 2
  /\ sensors[2] = res.body
  /\ res.body.id = 3
  /\ res.body.type = req.body.type.s

UniqueIds == \A i, j \in DOMAIN sensors : i # j => sensors[i].id # sensors[j].id

\* every step but a delete keeps each stored sensor at its place with its id,
\* and a delete removes ids without changing any
IdsKept ==
  /\ op' # "deleteSensor" =>
       \A i \in DOMAIN sensors : i \in DOMAIN sensors' /\ sensors'[i].id = sensors[i].id
  /\ op' = "updateSensor" => Len(sensors') = Len(sensors)
  /\ op' = "deleteSensor" =>
       {sensors'[i].id : i \in DOMAIN sensors'} \subseteq StoredIds

\* C8: in every reachable state no two stored sensors share an id, and
\* updateSensor never changes the id of the sensor it updates (a stored sensor
\* keeps its id until it is deleted).
C8_SensorIdsUniqueAndStable == []UniqueIds /\ [][IdsKept]_vars

\* sensor 2 of three updated to another type, its id kept
C8_Witness ==
  /\ op = "updateSensor"
  /\ res.status = 200
  /\ Len(sensors) = 3
  /\ req.id = <<"2">>
  /\ res.body.id = 2
  /\ res.body.type = "moisture"
  /\ sensors[2] = res.body

\* C9: getSensor, updateSensor and deleteSensor on an id that is not the id of
\* a stored sensor yield NotFound, status 404, with the message "Sensor with ID
\* <id> not found" naming the requested id, whatever the payload; a path
\* segment that is no number at all is answered 404 as well.
C9_UnknownIdNotFound ==
  [][ /\ op' \in {"getSensor", "updateSensor", "deleteSensor"}
      /\ parseInt(req'.id).nan \/ parseInt(req'.id).n \notin StoredIds
      => /\ res'.status = 404
         /\ res'.body.status = 404
         /\ ~parseInt(req'.id).nan =>
              res'.body.message =
                "Sensor with ID " \o ToString(parseInt(req'.id).n) \o " not found"
         /\ sensors' = sensors
         /\ readings' = readings ]_vars

\* updateSensor of id 999 with a payload that is itself invalid
C9_Witness ==
  /\ op = "updateSensor"
  /\ req.id = <<"9", "9", "9">>
  /\ ~ValidSensorPayload(req.body)
  /\ res.status = 404
  /\ res.body.message = "Sensor with ID 999 not found"

\* a reading payload with a parseable timestamp and a value of numeric type
ValidReadingPayload(body) ==
  /\ Has(body, "timestamp")
  /\ body.timestamp.k = "string"
  /\ ~DateParse(body.timestamp.s).nan
  /\ Has(body, "value")
  /\ body.value.k = "number"

\* C10: createReading yields NotFound "Sensor with ID <sensorId> not found"
\* when no stored sensor has the id; otherwise, for a valid payload, it appends
\* exactly one reading whose sensorId is the id of a sensor stored at that
\* moment and whose id is 1 + the largest reading id present before the call
\* (1 if there are no readings).
C10_CreateReading ==
  [][ op' = "createReading" /\ ~parseInt(req'.id).nan =>
        LET id == parseInt(req'.id).n IN
        /\ id \notin StoredIds =>
             /\ res'.status = 404
             /\ res'.body.message = "Sensor with ID " \o ToString(id) \o " not found"
             /\ readings' = readings
        /\ id \in StoredIds /\ ValidReadingPayload(req'.body) =>
             /\ res'.status = 201
             /\ Len(readings') = Len(readings) + 1
             /\ SubSeq(readings', 1, Len(readings)) = readings
             /\ readings'[Len(readings')] =
                  [id |-> IF readings = <<>> THEN 1
                          ELSE 1 + Max({readings[i].id : i \in DOMAIN readings}),
                   sensorId |-> id,
                   timestamp |-> req'.body.timestamp.s,
                   value |-> req'.body.value.n]
             /\ readings'[Len(readings')].sensorId \in StoredIds
             /\ res'.body = readings'[Len(readings')]
        /\ sensors' = sensors ]_vars

\* a third reading created for sensor 3, a sensor created after construction
C10_Witness ==
  /\ op = "createReading"
  /\ res.status = 201
  /\ res.body.id = 3
  /\ res.body.sensorId = 3
  /\ readings[3] = res.body
  /\ 3 \in StoredIds

\* the three fields of a sensor payload are present and valid, whatever other
\* fields the payload holds
ThreeValidFields(body) ==
  /\ {"location", "type", "status"} \subseteq DOMAIN body
  /\ body.location.k = "string" /\ Len(body.location.s) >= 3
  /\ body.type.k = "string" /\ body.type.s \in {"temperature", "humidity", "moisture"}
  /\ body.status.k = "string" /\ body.status.s \in {"active", "inactive"}

\* createSensor, or updateSensor of a stored sensor: the payload was validated
Validated == op \in {"createSensor", "updateSensor"} /\ res.status # 404

\* C11 as stated: the payload is accepted if and only if location is a string
\* of length >= 3, type is one of the three types and status is active or
\* inactive; other fields are ignored, and the stored sensor holds only id,
\* location, type, status.
C11_ExtraFieldsIgnored ==
  Validated =>
    /\ res.status \in {200, 201} <=> ThreeValidFields(req.body)
    /\ res.status \in {200, 201} => DOMAIN res.body = {"id", "location", "type", "status"}

\* C11: the payload is accepted if and only if it holds exactly the fields
\* location (a string of length >= 3), type (one of the three types) and status
\* (active or inactive); a payload with any other field is rejected with a
\* ValidationError, and a stored sensor holds only id, location, type, status.
C11_PayloadValidation ==
  Validated =>
    /\ res.status \in {200, 201} <=> ValidSensorPayload(req.body)
    /\ res.status \notin {200, 201} => res.status = 400
    /\ ThreeValidFields(req.body) /\ ~ValidSensorPayload(req.body) =>
         \E key \in DOMAIN req.body \ {"location", "type", "status"} :
           res.body.message = "\"" \o key \o "\" is not allowed"
    /\ res.status \in {200, 201} =>
         /\ DOMAIN res.body = {"id", "location", "type", "status"}
         /\ \E i \in DOMAIN sensors : sensors[i] = res.body
    /\ \A i \in DOMAIN sensors : DOMAIN sensors[i] = {"id", "location", "type", "status"}

\* three valid fields and the extra field owner, posted to createSensor
C11_Witness ==
  /\ op = "createSensor"
  /\ ThreeValidFields(req.body)
  /\ Has(req.body, "owner")
  /\ res.status = 400
  /\ res.body.message = "\"owner\" is not allowed"

\* the step leaves both collections exactly as they were
StoreUnchanged == sensors' = sensors /\ readings' = readings

\* C12: the collections change only in a step that is a successful
\* createSensor, updateSensor, deleteSensor or createReading; every operation
\* that ends in an error and every read operation leaves both collections as
\* they were, so listReadings asked again with the same query on the store it
\* left behind returns the same output.
C12_OnlySuccessfulWritesChangeStore ==
  [][ /\ ~StoreUnchanged =>
           /\ op' \in {"createSensor", "updateSensor", "deleteSensor", "createReading"}
           /\ res'.status \in {200, 201}
      /\ res'.status >= 400 => StoreUnchanged
      /\ op' \in {"listSensors", "getSensor", "listReadingsForSensor", "listReadings"} =>
           StoreUnchanged
      /\ op' = "listReadings" =>
           res' = getReadings(req'.query, sensors', readings').res ]_vars

\* updateSensor of a stored sensor rejected by validation, the store as built
C12_Witness ==
  /\ op = "updateSensor"
  /\ res.status = 400
  /\ req.id = <<"1">>
  /\ sensors = InitSensors
  /\ readings = InitReadings

\* a request that was answered with a failure
Failed == op # "idle" /\ res.status \notin {200, 201}

\* the messages of the validation failures
ValidationMessages ==
  {RuleMessage(k) : k \in 1 .. 9}
  \cup {"Invalid reading: timestamp or value",
        "\"location\" is required",
        "\"location\" must be a string",
        "\"location\" is not allowed to be empty",
        "\"location\" length must be at least 3 characters long",
        "\"type\" is required",
        "\"type\" must be one of [temperature, humidity, moisture]",
        "\"status\" is required",
        "\"status\" must be one of [active, inactive]",
        "\"owner\" is not allowed"}

\* the NotFound message for the id the request names
NotFoundMessage == "Sensor with ID " \o JsToString(parseInt(req.id)) \o " not found"

\* C13: every failure is rendered with the status of its kind
\* (ValidationError 400, NotFound and RouteNotFound 404, Internal 500), a body
\* status field equal to the HTTP status and an error field equal to the
\* message field.
C13_FailureEnvelope ==
  Failed =>
    /\ res.body.status = res.status
    /\ res.body.error = res.body.message
    /\ res.status \in {400, 404, 500}
    /\ res.body.message \in ValidationMessages <=> res.status = 400
    /\ op = "unknownRoute" <=>
         /\ res.status = 404
         /\ Has(req, "url")
         /\ res.body.message = "Route " \o req.method \o " " \o req.url \o " not found"
    /\ Has(req, "id") /\ res.body.message = NotFoundMessage <=>
         res.status = 404 /\ op # "unknownRoute"
    /\ res.status = 500 <=> op = "fail" \/ res.body.message = "status.toLowerCase is not a function"
    /\ op = "fail" => res.body.message = "Simulated failure"

\* an exception thrown by a handler, rendered as an Internal failure
C13_Witness ==
  /\ op = "listSensors"
  /\ res.status = 500
  /\ res.body.status = 500
  /\ res.body.error = "status.toLowerCase is not a function"

\* the id a request names is the id of a stored sensor
NamesStored == ~parseInt(req'.id).nan /\ \E i \in DOMAIN sensors : sensors[i].id = parseInt(req'.id).n

\* C14: deleteSensor on an existing id removes exactly the sensor with that
\* id and returns it, keeps the other sensors in their order, and leaves the
\* readings as they are; whatever the operation, the readings are only ever
\* appended to.
C14_DeleteLeavesReadings ==
  [][ /\ op' = "deleteSensor" /\ NamesStored =>
           LET id == parseInt(req'.id).n
           IN  /\ res'.status = 200
               /\ res'.body \in {sensors[i] : i \in DOMAIN sensors}
               /\ res'.body.id = id
               /\ sensors' = SelectSeq(sensors, LAMBDA s : s.id # id)
               /\ Len(sensors') = Len(sensors) - 1
               /\ readings' = readings
      /\ Len(readings') >= Len(readings)
      /\ SubSeq(readings', 1, Len(readings)) = readings ]_vars

\* sensor 1 deleted and returned, its readings still stored
C14_Witness ==
  /\ op = "deleteSensor"
  /\ res.status = 200
  /\ res.body = InitSensors[1]
  /\ \A i \in DOMAIN sensors : sensors[i].id # 1
  /\ \E i \in DOMAIN readings : readings[i].sensorId = 1

\* the payload of the request fails the validation of its operation
InvalidPayload ==
  \/ op' = "updateSensor" /\ validateSensor(req'.body).error
  \/ op' = "createReading" /\ ~ValidReadingPayload(req'.body)

\* C15: in updateSensor and createReading the existence check comes before
\* the validation of the payload: an id matching no stored sensor yields
\* NotFound (404) even when the payload is invalid, and ValidationError (400)
\* is returned only when the sensor exists (and the payload is invalid).
C15_ExistenceBeforeValidation ==
  [][ op' \in {"updateSensor", "createReading"} =>
        /\ ~NamesStored => /\ res'.status = 404
                           /\ res'.body.message = SensorNotFound(parseInt(req'.id))
        /\ res'.status = 400 <=> NamesStored /\ InvalidPayload ]_vars

\* a reading with an invalid payload for a sensor that was deleted: NotFound
C15_Witness ==
  /\ op = "createReading"
  /\ req.id = <<"1">>
  /\ 1 \notin StoredIds
  /\ ~ValidReadingPayload(req.body)
  /\ res.status = 404

\* C16 as stated: an id removed by deleteSensor is never the id of a sensor
\* stored later, so no reading of a deleted sensor is attributed to a stored one.
C16_DeletedIdNeverReassigned == StoredIds \cap retired = {}

\* the id is 1 + the largest id stored (1 when no sensor is stored)
NextAfterStored(d) ==
  /\ d - 1 \in StoredIds \cup {0}
  /\ \A i \in DOMAIN sensors : d > sensors[i].id

\* C16: createSensor assigns 1 + the largest id stored at that moment, so
\* that an id removed by deleteSensor is assigned again exactly when it is that
\* id; listReadingsForSensor(id) and the type filter of listReadings then
\* return every stored reading holding the sensorId, those created for the
\* earlier, deleted sensor included.
C16_DeletedIdReassignedWhenLargest ==
  [][ /\ (op' = "createSensor" /\ res'.status = 201) =>
           /\ NextAfterStored(res'.body.id)
           /\ \A d \in retired : res'.body.id = d <=> NextAfterStored(d)
      /\ (op' = "listReadingsForSensor" /\ res'.status = 200) =>
           res'.body = SelectSeq(readings, LAMBDA r : r.sensorId = parseInt(req'.id).n)
      /\ (op' = "listReadings" /\ res'.status = 200 /\ DOMAIN req'.query = {"type"}) =>
           res'.body.totalItems =
             Len(SelectSeq(readings,
                   LAMBDA r : \E i \in DOMAIN sensors :
                                /\ sensors[i].id = r.sensorId
                                /\ sensors[i].type = req'.query.type)) ]_vars

\* sensors 1 and 2 were deleted, a moisture sensor was created with id 1, and
\* the two readings of the old temperature sensor are listed under moisture
C16_Witness ==
  /\ op = "listReadings"
  /\ req.query = [type |-> "moisture"]
  /\ res.status = 200
  /\ res.body.totalItems = 2
  /\ 1 \in retired \cap StoredIds
  /\ readings = InitReadings

====
